---- MODULE Spec2Model ----
(***************************************************************************)
(* Model of src/zoom_audio_bot.py: main, ZoomAudioBot.__init__,            *)
(* _connect_to_meeting, _generate_meeting_signature, _prepare_audio and    *)
(* play_audio_to_meeting.  One run of main() is one behaviour.  Every      *)
(* await of the coroutine is a step boundary; the remote endpoint, the     *)
(* file system and the clock are nondeterministic choices made at the      *)
(* step that consults them.                                                *)
(*                                                                         *)
(* Library semantics relied on (websockets):                               *)
(*   - `async with websockets.connect(..) as ws` closes ws when the block  *)
(*     is left, by return as well as by exception;                         *)
(*   - ws.send() on a connection that is not open raises ConnectionClosed; *)
(*   - ws.close() on a closed connection returns without effect;           *)
(*   - ws.recv() gives str for a text frame and bytes for a binary frame.  *)
(***************************************************************************)
EXTENDS Integers, Sequences, FiniteSets, TLC

VARIABLES
    pc,          \* position of the single flow of control
    environ,     \* process environment read by main and __init__
    conn,        \* the websocket connection: "none" | "open" | "closed"
    opened,      \* number of connections opened so far
    closeCalls,  \* number of close operations performed on the connection
    join_data,   \* local of _connect_to_meeting, NoJoinData before it is built
    signed,      \* calls of _generate_meeting_signature: meeting, instant, value
    websocket,   \* local of play_audio_to_meeting: "unbound" | "None" | "ws"
    response,    \* what recv() returned, NoResponse before
    wire,        \* messages the connection accepted, in order
    issued,      \* messages handed to websocket.send for audio, in order
    completed,   \* audio sends whose await has returned or raised
    audio_data,  \* decoded buffer (bytes), <<>> before _prepare_audio
    decoded,     \* TRUE once _prepare_audio has returned
    i,           \* loop variable of the streaming loop
    frames,      \* chunks produced so far by the slicing of the loop
    result,      \* how play_audio_to_meeting ended: "running"|"returned"|"raised"
    exc,         \* last exception raised, "none" if none
    printed,     \* lines printed, in order (tags)
    events,      \* library calls in order
    faults       \* failures injected by the environment

vars == <<pc, environ, conn, opened, closeCalls, join_data, signed, websocket, response, wire,
          issued, completed, audio_data, decoded, i, frames, result, exc,
          printed, events, faults>>

----------------------------------------------------------------------------
(* Bounds of the model *)

\* buffers of up to MaxChunks full chunks, give or take MaxExtra bytes
MaxChunks == 2
MaxExtra == 1
\* number of distinct byte patterns tried for a buffer
MaxSeed == 4
\* signature calls per behaviour, and the instants tried, half a
\* millisecond apart
MaxCalls == 2
MaxTick == 6

----------------------------------------------------------------------------
(* Values *)

None == "None"
Unbound == "unbound"
NoResponse == [kind |-> "none", text |-> <<>>, ack |-> FALSE]
ConnectionLost == [kind |-> "lost", text |-> <<>>, ack |-> FALSE]
NoJoinData == [action |-> "none"]

Min(a, b) == IF a < b THEN a ELSE b

\* the sequence f of length n, held as a tuple (the same value)
AsSeq(f, n) == SubSeq(f, 1, n)

\* chunk_size = 1024 * 16
chunk_size == 1024 * 16

\* the substring the join response is searched for
SuccessMarker == <<"s", "u", "c", "c", "e", "s", "s">>

\* Python truthiness of an Optional[str]
Truthy(v) == v # None /\ v # ""

\* all([...]) over a sequence of values
All(vs) == \A k \in 1..Len(vs) : Truthy(vs[k])

\* `sub in s` for str operands
Contains(sub, s) ==
    \E k \in 1..(Len(s) - Len(sub) + 1) : SubSeq(s, k, k + Len(sub) - 1) = sub

----------------------------------------------------------------------------
(* Credential & signature generator *)

\* jwt.encode(payload, secret, algorithm='HS256'): the signed token is
\* determined by the payload and the key
jwt_encode(payload, secret) == [payload |-> payload, key |-> secret]

\* Instants (time.time(), datetime.now().timestamp()) are held in whole
\* microseconds.

\* _generate_jwt_token: {'iss': api_key, 'exp': now + 5000}, exp in seconds
\* and the microseconds left over
_generate_jwt_token(env, now_us) ==
    jwt_encode([iss |-> env.ZOOM_API_KEY,
                exp |-> <<now_us \div 1000000 + 5000, now_us % 1000000>>],
               env.ZOOM_API_SECRET)

\* a signature whose timestamp is cut to whole seconds
SignatureToTheSecond(env, meeting_id, now_us) ==
    LET timestamp == (now_us \div 1000000) * 1000 - 30000
        msg == <<env.ZOOM_SDK_KEY, meeting_id, timestamp, 1>>
    IN  jwt_encode([hash |-> msg], env.ZOOM_SDK_SECRET)
\* _generate_meeting_signature: timestamp = int(time.time() * 1000) - 30000,
\* msg = f'{sdk_key}{meeting_id}{timestamp}{1}', held as its four fields in
\* the order they are written (for a fixed key and meeting identifier the
\* text is determined by, and determines, the timestamp)
_generate_meeting_signature(env, meeting_id, now_us) ==
    LET timestamp == (now_us \div 1000) - 30000
        msg == <<env.ZOOM_SDK_KEY, meeting_id, timestamp, 1>>
    IN  jwt_encode([hash |-> msg], env.ZOOM_SDK_SECRET)

\* join_data of _connect_to_meeting
JoinData(env, meeting_id, password, now_us) ==
    [meetingNumber |-> meeting_id,
     role          |-> 0,
     sdkKey        |-> env.ZOOM_SDK_KEY,
     signature     |-> _generate_meeting_signature(env, meeting_id, now_us),
     password      |-> IF Truthy(password) THEN password ELSE ""]

\* json.dumps({'action': 'join', 'params': join_data})
JoinMessage(jd) == [action |-> "join", params |-> jd]

----------------------------------------------------------------------------
(* Session negotiator *)

\* `'success' in response` raises TypeError when recv() gave bytes
ResponseRaises(r) == r.kind = "bytes"

\* await websocket.recv() carries no timeout: it returns (or raises) only
\* when the endpoint sends a message or the connection goes down
RecvReturns(fs) == "silent" \notin fs

\* return websocket if 'success' in response else None
JoinResultAlways(r) == "ws"
JoinResult(r) == IF Contains(SuccessMarker, r.text) THEN "ws" ELSE None

\* where control goes when the join was not acknowledged: `return`, which
\* runs the finally clause; there is no second attempt
AfterFailedJoinRetry == "connect"
AfterFailedJoin == "finally"

\* leaving the `async with` block: the connection is closed
WithExitLeak(c) == c
WithExit(c) == "closed"

\* websocket.close(): closes; has no further effect on a closed connection
Close(c) == "closed"

----------------------------------------------------------------------------
(* Audio preparer and the slicing of the streaming loop *)

\* bytes.hex(): two digits per byte, high nibble first.  A digit of the
\* string is held as its position 0..15 in "0123456789abcdef".
hex(b) ==
    IF Len(b) = 0 THEN <<>>
    ELSE AsSeq([j \in 1..(2 * Len(b)) |->
                  IF j % 2 = 1 THEN b[(j + 1) \div 2] \div 16
                               ELSE b[j \div 2] % 16],
               2 * Len(b))

\* audio_data[i:i + chunk_size] (i is 0-based, the end is clamped)
ChunkShifted(data, at) == SubSeq(data, at + 2, Min(at + chunk_size + 1, Len(data)))
Chunk(data, at) == SubSeq(data, at + 1, Min(at + chunk_size, Len(data)))

\* the step of range(0, len(audio_data), chunk_size)
RangeNextShort(at) == at + chunk_size - 1
RangeNext(at) == at + chunk_size

\* range(0, len(audio_data), chunk_size) still has the value `at`
InRange(data, at) == at < Len(data)

\* the message carrying one chunk
\* what one turn of the loop does before `await websocket.send(..)` returns:
\* it calls send; the pause comes after the send, not before it
IssuePauseFirst == <<"sleep", "send_audio">>
IssueEvents == <<"send_audio">>

AudioMessage(chunk) == [action |-> "audio", params |-> [data |-> hex(chunk)]]

----------------------------------------------------------------------------
(* What the environment can supply *)

Str(v) == {None, v}

\* a path that names no file
MissingPath == "missing.mp3"

\* the file at `path` can be read and decoded as MP3 (readable says whether
\* an existing file is a valid one)
CanDecode(path, readable) == path # MissingPath /\ readable

\* AudioSegment.from_mp3(path) raises when the file cannot be decoded
DecodeRaisesNever(path, readable) == FALSE
DecodeRaises(path, readable) == ~CanDecode(path, readable)

Environs ==
    [ZOOM_API_KEY          : Str("ak"),
     ZOOM_API_SECRET       : Str("as"),
     ZOOM_SDK_KEY          : Str("sk"),
     ZOOM_SDK_SECRET       : Str("ss"),
     ZOOM_MEETING_ID       : Str("85"),
     ZOOM_MEETING_PASSWORD : {None, "", "pw"},
     AUDIO_FILE_PATH       : Str("a.mp3") \cup {MissingPath}]

\* time.time() at the moment the signature is made
Epoch == 31 * 1000000
Clock == {Epoch, Epoch + 1000000}

\* one call of _generate_meeting_signature, as logged in `signed`
SignatureCall(env, meeting_id, now_us) ==
    [meeting_id |-> meeting_id, at |-> now_us,
     signature |-> _generate_meeting_signature(env, meeting_id, now_us)]

\* responses the remote endpoint may give to the join request; ack says
\* whether the endpoint admitted the client
TextResponse(t, a) == [kind |-> "str", text |-> t, ack |-> a]
Responses ==
    { TextResponse(SuccessMarker, TRUE),
      TextResponse(<<"u", "n">> \o SuccessMarker \o <<"f", "u", "l">>, FALSE),
      TextResponse(<<"e", "r", "r", "o", "r">>, FALSE),
      TextResponse(<<"s", "u", "c", "c", "e", "s">>, FALSE),
      TextResponse(<<>>, FALSE),
      [kind |-> "bytes", text |-> <<"e", "r", "r", "o", "r">>, ack |-> FALSE] }

\* lengths of the decoded buffers tried
Lengths ==
    { n \in { k * chunk_size + d : k \in 0..MaxChunks, d \in (0 - MaxExtra)..MaxExtra } :
        n >= 0 } \cup {40000}

\* a decoded buffer of n bytes
RawData(n, seed) ==
    IF n = 0 THEN <<>>
    ELSE AsSeq([k \in 1..n |-> (seed * k + seed) % 256], n)

\* AudioSegment.from_mp3(path).raw_data when the file decodes
Decodable == { RawData(n, 1) : n \in Lengths }

----------------------------------------------------------------------------
(* The program *)

\* __init__: all([api_key, api_secret, sdk_key, sdk_secret])
CredentialsPresentNone(env) == TRUE
CredentialsPresent(env) ==
    All(<<env.ZOOM_API_KEY, env.ZOOM_API_SECRET,
          env.ZOOM_SDK_KEY, env.ZOOM_SDK_SECRET>>)

\* main: all([meeting_id, mp3_path])
ParametersPresent(env) == All(<<env.ZOOM_MEETING_ID, env.AUDIO_FILE_PATH>>)

Init ==
    /\ pc = "main"
    /\ environ \in Environs
    /\ conn = "none"
    /\ opened = 0
    /\ closeCalls = 0
    /\ join_data = NoJoinData
    /\ signed = <<>>
    /\ websocket = Unbound
    /\ response = NoResponse
    /\ wire = <<>>
    /\ issued = <<>>
    /\ completed = 0
    /\ audio_data = <<>>
    /\ decoded = FALSE
    /\ i = 0
    /\ frames = <<>>
    /\ result = "running"
    /\ exc = "none"
    /\ printed = <<>>
    /\ events = <<>>
    /\ faults = {}

\* main() up to asyncio.run(bot.play_audio_to_meeting(..)), whose first line
\* prints the attempt
main ==
    /\ pc = "main"
    /\ IF ~ParametersPresent(environ)
       THEN /\ printed' = Append(printed, "usage")
            /\ pc' = "exit"
            /\ exc' = exc
       ELSE IF ~CredentialsPresent(environ)
       THEN /\ exc' = "ValueError"
            /\ pc' = "exit"
            /\ printed' = printed
       ELSE /\ printed' = Append(printed, "attempt")
            /\ pc' = "connect"
            /\ exc' = exc
    /\ UNCHANGED <<environ, signed, conn, opened, closeCalls, join_data, websocket,
                   response, wire, issued, completed, audio_data, decoded, i,
                   frames, result, events, faults>>

\* _connect_to_meeting up to the entry of the `async with` block
Connect ==
    /\ pc = "connect"
    /\ \E now_us \in Clock, ok \in BOOLEAN :
        /\ join_data' = JoinData(environ, environ.ZOOM_MEETING_ID,
                                 environ.ZOOM_MEETING_PASSWORD, now_us)
        /\ signed' = Append(signed, SignatureCall(environ,
                                       environ.ZOOM_MEETING_ID, now_us))
        /\ IF ok
           THEN /\ conn' = "open"
                /\ opened' = opened + 1
                /\ events' = Append(events, "connect")
                /\ pc' = "send_join"
                /\ UNCHANGED <<exc, printed, faults>>
           ELSE /\ exc' = "OSError"
                /\ faults' = faults \cup {"connect"}
                /\ printed' = Append(printed, "error")
                /\ pc' = "finally"
                /\ UNCHANGED <<conn, opened, events>>
    /\ UNCHANGED <<environ, closeCalls, websocket, response, wire, issued,
                   completed, audio_data, decoded, i, frames, result>>

\* await websocket.send(json.dumps({'action': 'join', ..})).  The endpoint
\* that takes the request either will answer it or stays silent while
\* keeping the connection up.
SendJoin ==
    /\ pc = "send_join"
    /\ \E ok \in BOOLEAN, answers \in BOOLEAN :
        IF ok
        THEN /\ wire' = Append(wire, JoinMessage(join_data))
             /\ events' = Append(events, "send_join")
             /\ pc' = "recv"
             /\ faults' = IF answers THEN faults ELSE faults \cup {"silent"}
             /\ UNCHANGED <<conn, closeCalls, exc, printed>>
        ELSE /\ exc' = "ConnectionClosed"
             /\ faults' = faults \cup {"send_join"}
             /\ conn' = WithExit(conn)
             /\ closeCalls' = closeCalls + 1
             /\ events' = Append(events, "close")
             /\ printed' = Append(printed, "error")
             /\ pc' = "finally"
             /\ wire' = wire
    /\ UNCHANGED <<environ, signed, opened, join_data, websocket, response, issued,
                   completed, audio_data, decoded, i, frames, result>>

\* response = await websocket.recv(); return websocket if 'success' in
\* response else None; and the exit of the `async with` block
Recv ==
    /\ pc = "recv"
    /\ RecvReturns(faults)
    /\ \E r \in Responses \cup {ConnectionLost} :
        /\ IF r = ConnectionLost
           THEN /\ exc' = "ConnectionClosed"
                /\ faults' = faults \cup {"recv"}
                /\ printed' = Append(printed, "error")
                /\ pc' = "finally"
                /\ UNCHANGED <<response, websocket>>
           ELSE IF ResponseRaises(r)
           THEN /\ response' = r
                /\ exc' = "TypeError"
                /\ printed' = Append(printed, "error")
                /\ pc' = "finally"
                /\ UNCHANGED <<websocket, faults>>
           ELSE /\ response' = r
                /\ websocket' = JoinResult(r)
                /\ pc' = "after_join"
                /\ UNCHANGED <<exc, printed, faults>>
        /\ conn' = WithExit(conn)
        /\ closeCalls' = closeCalls + 1
        /\ events' = events \o <<"recv", "close">>
    /\ UNCHANGED <<environ, signed, opened, join_data, wire, issued, completed,
                   audio_data, decoded, i, frames, result>>

\* play_audio_to_meeting from the return of _connect_to_meeting to the
\* start of the streaming loop
AfterJoin ==
    /\ pc = "after_join"
    /\ IF ~Truthy(websocket)
       THEN /\ printed' = Append(printed, "failed_connect")
            /\ pc' = AfterFailedJoin
            /\ UNCHANGED <<audio_data, decoded, exc, faults>>
       ELSE \E ok \in BOOLEAN, d \in Decodable :
            /\ faults' = IF CanDecode(environ.AUDIO_FILE_PATH, ok)
                          THEN faults ELSE faults \cup {"decode"}
            /\ IF ~DecodeRaises(environ.AUDIO_FILE_PATH, ok)
               THEN /\ audio_data' = d
                    /\ decoded' = TRUE
                    /\ printed' = printed \o <<"joined", "preparing">>
                    /\ pc' = "loop"
                    /\ exc' = exc
               ELSE /\ exc' = "DecodeError"
                    /\ printed' = printed \o <<"joined", "preparing", "error">>
                    /\ pc' = "finally"
                    /\ UNCHANGED <<audio_data, decoded>>
    /\ i' = 0
    /\ UNCHANGED <<environ, signed, conn, opened, closeCalls, join_data, websocket,
                   response, wire, issued, completed, frames, result, events>>

\* one turn of `for i in range(..)`: the slice and the call of send
StreamIssue ==
    /\ pc = "loop"
    /\ IF InRange(audio_data, i)
       THEN /\ frames' = Append(frames, Chunk(audio_data, i))
            /\ issued' = Append(issued, AudioMessage(Chunk(audio_data, i)))
            /\ events' = events \o IssueEvents
            /\ pc' = "sending"
            /\ printed' = printed
       ELSE /\ printed' = Append(printed, "finished")
            /\ pc' = "finally"
            /\ UNCHANGED <<frames, issued, events>>
    /\ UNCHANGED <<environ, signed, conn, opened, closeCalls, join_data, websocket,
                   response, wire, completed, audio_data, decoded, i, result,
                   exc, faults>>

\* the end of `await websocket.send(..)` and, when it returns, the sleep
StreamSendDone ==
    /\ pc = "sending"
    /\ \E ok \in BOOLEAN :
        IF conn = "open" /\ ok
        THEN /\ wire' = Append(wire, issued[Len(issued)])
             /\ events' = events \o <<"sent_audio", "sleep">>
             /\ i' = RangeNext(i)
             /\ pc' = "loop"
             /\ UNCHANGED <<exc, printed, faults>>
        ELSE /\ exc' = "ConnectionClosed"
             /\ faults' = IF conn = "open" THEN faults \cup {"send_audio"} ELSE faults
             /\ events' = Append(events, "send_audio_raised")
             /\ printed' = Append(printed, "error")
             /\ pc' = "finally"
             /\ UNCHANGED <<wire, i>>
    /\ completed' = completed + 1
    /\ UNCHANGED <<environ, signed, conn, opened, closeCalls, join_data, websocket,
                   response, issued, audio_data, decoded, frames, result>>

\* finally: if websocket: await websocket.close()
Finally ==
    /\ pc = "finally"
    /\ IF websocket = Unbound
       THEN /\ exc' = "UnboundLocalError"
            /\ result' = "raised"
            /\ UNCHANGED <<conn, closeCalls, events>>
       ELSE IF Truthy(websocket)
       THEN /\ conn' = Close(conn)
            /\ closeCalls' = closeCalls + 1
            /\ events' = Append(events, "close")
            /\ result' = "returned"
            /\ exc' = exc
       ELSE /\ result' = "returned"
            /\ UNCHANGED <<conn, closeCalls, events, exc>>
    /\ pc' = "done"
    /\ UNCHANGED <<environ, signed, opened, join_data, websocket, response, wire,
                   issued, completed, audio_data, decoded, i, frames, printed,
                   faults>>

Next ==
    \/ main
    \/ Connect
    \/ SendJoin
    \/ Recv
    \/ AfterJoin
    \/ StreamIssue
    \/ StreamSendDone
    \/ Finally

Spec == Init /\ [][Next]_vars

----------------------------------------------------------------------------
(* The slicing of the streaming loop on its own: lines 102-103 applied to   *)
(* every buffer of the bounded set, with no session involved                *)

FullEnviron ==
    [ZOOM_API_KEY |-> "ak", ZOOM_API_SECRET |-> "as", ZOOM_SDK_KEY |-> "sk",
     ZOOM_SDK_SECRET |-> "ss", ZOOM_MEETING_ID |-> "85",
     ZOOM_MEETING_PASSWORD |-> None, AUDIO_FILE_PATH |-> "a.mp3"]

InitPartition ==
    /\ pc = "slice"
    /\ environ = FullEnviron
    /\ audio_data \in { RawData(n, seed) : n \in Lengths, seed \in 1..MaxSeed }
    /\ decoded = TRUE
    /\ i = 0
    /\ frames = <<>>
    /\ conn = "none"
    /\ opened = 0
    /\ closeCalls = 0
    /\ join_data = NoJoinData
    /\ signed = <<>>
    /\ websocket = Unbound
    /\ response = NoResponse
    /\ wire = <<>>
    /\ issued = <<>>
    /\ completed = 0
    /\ result = "running"
    /\ exc = "none"
    /\ printed = <<>>
    /\ events = <<>>
    /\ faults = {}

\* for i in range(0, len(audio_data), chunk_size): chunk = audio_data[i:i + chunk_size]
Slice ==
    /\ pc = "slice"
    /\ IF InRange(audio_data, i)
       THEN /\ frames' = Append(frames, Chunk(audio_data, i))
            /\ i' = RangeNext(i)
            /\ pc' = pc
       ELSE /\ pc' = "sliced"
            /\ UNCHANGED <<frames, i>>
    /\ UNCHANGED <<environ, signed, conn, opened, closeCalls, join_data, websocket,
                   response, wire, issued, completed, audio_data, decoded,
                   result, exc, printed, events, faults>>

NextPartition == Slice

SpecPartition == InitPartition /\ [][NextPartition]_vars

----------------------------------------------------------------------------
(* _generate_meeting_signature on its own: successive calls at instants of  *)
(* a non-decreasing clock, for each meeting identifier                      *)

MeetingIds == {"85", "86"}
Instants == { Epoch + k * 500 : k \in 0..MaxTick }

InitSignature ==
    /\ pc = "sign"
    /\ environ = FullEnviron
    /\ signed = <<>>
    /\ audio_data = <<>>
    /\ decoded = FALSE
    /\ i = 0
    /\ frames = <<>>
    /\ conn = "none"
    /\ opened = 0
    /\ closeCalls = 0
    /\ join_data = NoJoinData
    /\ websocket = Unbound
    /\ response = NoResponse
    /\ wire = <<>>
    /\ issued = <<>>
    /\ completed = 0
    /\ result = "running"
    /\ exc = "none"
    /\ printed = <<>>
    /\ events = <<>>
    /\ faults = {}

\* one call of _generate_meeting_signature(meeting_id) at the instant now_us
Sign ==
    /\ pc = "sign"
    /\ Len(signed) < MaxCalls
    /\ \E meeting_id \in MeetingIds, now_us \in Instants :
        /\ IF signed = <<>> THEN TRUE ELSE signed[Len(signed)].at <= now_us
        /\ signed' = Append(signed, SignatureCall(environ, meeting_id, now_us))
    /\ UNCHANGED <<pc, environ, conn, opened, closeCalls, join_data, websocket,
                   response, wire, issued, completed, audio_data, decoded, i,
                   frames, result, exc, printed, events, faults>>

NextSignature == Sign

SpecSignature == InitSignature /\ [][NextSignature]_vars

----------------------------------------------------------------------------
(* Vocabulary of the properties *)

InSeq(x, s) == \E k \in 1..Len(s) : s[k] = x

IsAudio(m) == m.action = "audio"
AudioOn(s) == SelectSeq(s, IsAudio)

\* the inverse of hex
fromhex(h) ==
    IF Len(h) = 0 THEN <<>>
    ELSE AsSeq([k \in 1..(Len(h) \div 2) |-> 16 * h[2 * k - 1] + h[2 * k]],
               Len(h) \div 2)

\* the frames carried by a sequence of audio messages
FramesOf(ms) == [k \in 1..Len(ms) |-> fromhex(ms[k].params.data)]

CeilDiv(a, b) == (a + b - 1) \div b

\* the partition of a buffer into consecutive frames of chunk_size bytes,
\* the last one possibly shorter
Partition(data) ==
    [k \in 1..CeilDiv(Len(data), chunk_size) |->
        SubSeq(data, (k - 1) * chunk_size + 1, Min(k * chunk_size, Len(data)))]

Prefix(s, n) == SubSeq(s, 1, n)

RECURSIVE Concat(_)
Concat(fs) ==
    IF Len(fs) = 0 THEN <<>>
    ELSE Concat(SubSeq(fs, 1, Len(fs) - 1)) \o fs[Len(fs)]

Sizes(fs) == [k \in 1..Len(fs) |-> Len(fs[k])]

ResponseReceived == response # NoResponse

\* the success indicator the join response is searched for
HasSuccessIndicator(r) == r.kind = "str" /\ Contains(SuccessMarker, r.text)

\* play_audio_to_meeting or main has ended
Ended == pc \in {"done", "exit"}

\* _connect_to_meeting has returned the handle and the finally clause has
\* not run yet
SessionHeld == websocket = "ws" /\ pc \in {"after_join", "loop", "sending", "finally"}

\* the join was acknowledged, the audio decoded, and the environment
\* injected no failure
FailureFree == faults = {} /\ response.ack /\ decoded

TransmissionFailed == InSeq("send_audio_raised", events)
JoinFailed == websocket # "ws"
DecodeFailed == exc = "DecodeError"

----------------------------------------------------------------------------
(* Properties *)

\* C1: no audio message is sent, nor handed to send, unless the join
\* response has been received and carries the success indicator; when the
\* response lacks the indicator, the invocation ends with no audio message
\* sent and the connection not open.
C1_NoAudioWithoutJoin ==
    /\ (AudioOn(wire) # <<>> \/ issued # <<>>)
          => (ResponseReceived /\ HasSuccessIndicator(response))
    /\ (pc = "done" /\ ResponseReceived /\ ~HasSuccessIndicator(response))
          => (AudioOn(wire) = <<>> /\ issued = <<>> /\ conn # "open")

\* C1 witness: a join answered without the indicator has ended, connection
\* opened and closed, nothing sent but the join request.
C1_Witness ==
    /\ pc = "done"
    /\ response.kind = "str"
    /\ ~HasSuccessIndicator(response)
    /\ opened = 1
    /\ conn = "closed"
    /\ Len(wire) = 1

\* C2: the handle _connect_to_meeting returns on a successful join is open
\* when returned and stays open until the finally clause releases it; after
\* a failed join the connection is not open once _connect_to_meeting is left.
C2_ReturnedSessionOpen ==
    /\ SessionHeld => conn = "open"
    /\ (pc \in {"after_join", "finally"} /\ websocket # "ws") => conn # "open"

\* C3: on a failure-free run all ceil(L/16384) frames are sent, the session
\* is closed only after the last frame was sent, and success is reported;
\* L = 40000 gives frames of 16384, 16384 and 7232 bytes.
C3_FailureFreeRunSendsAll ==
    (pc = "done" /\ FailureFree) =>
        /\ FramesOf(AudioOn(wire)) = Partition(audio_data)
        /\ Len(AudioOn(wire)) = CeilDiv(Len(audio_data), chunk_size)
        /\ (Len(audio_data) = 40000
              => Sizes(FramesOf(AudioOn(wire))) = <<16384, 16384, 7232>>)
        /\ conn = "closed"
        /\ \A a, b \in 1..Len(events) :
              (events[a] = "close" /\ events[b] = "sent_audio") => b < a
        /\ result = "returned"
        /\ InSeq("finished", printed)
        /\ ~InSeq("error", printed)

\* C4: when the invocation has ended, on whichever path, no connection is
\* open: every connection that was opened has been closed.
C4_ClosedOnEveryExit ==
    Ended => (conn # "open" /\ (opened > 0 => conn = "closed"))

\* C4 witness: an invocation that joined, failed to decode the asset, and
\* ended with its connection closed.
C4_Witness ==
    /\ pc = "done"
    /\ opened = 1
    /\ conn = "closed"
    /\ websocket = "ws"
    /\ DecodeFailed

\* C5: in an invocation that joined successfully the close operation is
\* performed exactly once on the connection: never a second time, and once
\* by the end.
C5_ClosedExactlyOnce ==
    websocket = "ws" => (closeCalls <= 1 /\ (pc = "done" => closeCalls = 1))

\* C6: when the send of frame k fails, frames 1..k-1 were each sent once,
\* frame k was handed to send once and not retried, no later frame was
\* handed to send, and the session was closed exactly once by the end.
C6_NoRetryAfterFailure ==
    (pc = "done" /\ TransmissionFailed) =>
        LET k == Len(issued)
            P == Partition(audio_data)
        IN  /\ k >= 1 /\ k <= Len(P)
            /\ FramesOf(issued) = Prefix(P, k)
            /\ FramesOf(AudioOn(wire)) = Prefix(P, k - 1)
            /\ closeCalls = 1

C8_PartitionExact ==
    pc \in {"slice", "sliced"} =>
        /\ \A k \in 1..Len(frames) :
              Len(frames[k]) > 0 /\ Len(frames[k]) <= chunk_size
        /\ \A k \in 1..(Len(frames) - 1) : Len(frames[k]) = chunk_size
        /\ Concat(frames) = Prefix(audio_data, Min(i, Len(audio_data)))
        /\ pc = "sliced" =>
              /\ Len(frames) = CeilDiv(Len(audio_data), chunk_size)
              /\ Concat(frames) = audio_data

\* C8 witness: a 40000-byte buffer sliced into frames of 16384, 16384 and
\* 7232 bytes.
C8_Witness ==
    /\ pc = "sliced"
    /\ Len(audio_data) = 40000
    /\ Sizes(frames) = <<16384, 16384, 7232>>

\* C9: an invocation that failed (join, decode or transmission) does not end
\* with the outcome a successful one gives its caller, a plain return.
C9_FailureReported ==
    (pc = "done" /\ (JoinFailed \/ DecodeFailed \/ TransmissionFailed))
        => result # "returned"

\* C10: once the response has been handled, the negotiator is Joined (the
\* handle was returned) if and only if the response was a positive
\* acknowledgement.
C10_JoinedIffAcknowledged ==
    (ResponseReceived /\ pc # "recv") => ((websocket = "ws") <=> response.ack)

\* C11: a join attempt always terminates: while the negotiator awaits the
\* acknowledgement a step out of the wait is always possible (a timeout
\* when the endpoint never answers), so it never stays in AwaitingAck.
C11_JoinAttemptTerminates ==
    pc = "recv" => ENABLED Next

\* C12: once loading or decoding the asset has failed, no audio frame is
\* handed to send or sent in that invocation, and when the invocation has
\* ended the session that was opened is closed.
C12_DecodeFailureSendsNothing ==
    "decode" \in faults =>
        /\ issued = <<>>
        /\ AudioOn(wire) = <<>>
        /\ frames = <<>>
        /\ pc = "done" => (conn = "closed" /\ opened = 1)

\* C12 witness: an invocation that joined, could not decode an existing
\* file, and has ended.
C12_Witness ==
    /\ pc = "done"
    /\ "decode" \in faults
    /\ environ.AUDIO_FILE_PATH # MissingPath
    /\ websocket = "ws"
    /\ printed = <<"attempt", "joined", "preparing", "error">>

\* C13: when the asset path names no file, the invocation ends by reporting
\* the decode failure, whatever the outcome of the join.
C13_DecodeFailureNotMasked ==
    (pc = "done" /\ environ.AUDIO_FILE_PATH = MissingPath) =>
        (exc = "DecodeError" /\ InSeq("error", printed))

\* the four credentials, the meeting identifier and the asset path
RequiredSettings ==
    {"ZOOM_API_KEY", "ZOOM_API_SECRET", "ZOOM_SDK_KEY", "ZOOM_SDK_SECRET",
     "ZOOM_MEETING_ID", "AUDIO_FILE_PATH"}

SomeRequiredAbsent == \E k \in RequiredSettings : environ[k] = None

\* C14: when a credential, the meeting identifier or the asset path is
\* absent, the run never gets past startup, where it ends with the usage
\* line or a ValueError, and no connection is opened, no join request and
\* no frame is sent.
C14_AbsentSettingNoNetwork ==
    SomeRequiredAbsent =>
        /\ pc \in {"main", "exit"}
        /\ pc = "exit" => (printed = <<"usage">> \/ exc = "ValueError")
        /\ conn = "none" /\ opened = 0
        /\ wire = <<>> /\ issued = <<>> /\ events = <<>>

\* C14 witness: the constructor has raised for a missing credential, the
\* meeting identifier and the path being set.
C14_Witness ==
    /\ pc = "exit"
    /\ exc = "ValueError"
    /\ environ.ZOOM_SDK_SECRET = None
    /\ environ.ZOOM_MEETING_ID # None
    /\ environ.AUDIO_FILE_PATH # None

\* C15: at most one connection is opened in an invocation, so at most one
\* session is open in any state.
C15_AtMostOneSession ==
    /\ opened <= 1
    /\ conn = "open" => opened = 1
    /\ opened = 0 => conn = "none"

\* C15 witness: the one session of the invocation is open.
C15_Witness ==
    /\ conn = "open"
    /\ opened = 1
    /\ pc = "recv"

\* the millisecond an instant falls in
Millisecond(now_us) == now_us \div 1000

\* C16, as claimed: for one meeting identifier, two calls made at different
\* instants give different signature values.
C16_DifferentInstantsDiffer ==
    \A a, b \in 1..Len(signed) :
        (signed[a].meeting_id = signed[b].meeting_id /\ signed[a].at # signed[b].at)
            => signed[a].signature # signed[b].signature

\* C16, amended: for one meeting identifier, two calls made at instants in
\* different milliseconds give different signature values, and two calls
\* within one millisecond give the same value.
C16_DifferentMillisecondsDiffer ==
    \A a, b \in 1..Len(signed) :
        signed[a].meeting_id = signed[b].meeting_id =>
            ((Millisecond(signed[a].at) # Millisecond(signed[b].at))
                <=> (signed[a].signature # signed[b].signature))

\* C16 witness: two calls for one meeting, a millisecond or more apart, with
\* different values.
C16_Witness ==
    /\ Len(signed) = 2
    /\ signed[1].meeting_id = signed[2].meeting_id
    /\ Millisecond(signed[1].at) # Millisecond(signed[2].at)
    /\ signed[1].signature # signed[2].signature

\* C17: the role bound into the signed payload is the role the join request
\* carries, the participant role 0.
C17_SignedRoleIsRequestRole ==
    join_data # NoJoinData =>
        /\ join_data.role = 0
        /\ join_data.signature.payload.hash[4] = join_data.role

\* how often x occurs in the sequence s
Count(x, s) == Cardinality({ k \in 1..Len(s) : s[k] = x })

\* join requests that went out on the connection
JoinRequests == Cardinality({ k \in 1..Len(wire) : wire[k].action = "join" })

\* the state of the negotiator: waiting in recv for the answer to the join
\* request, holding the handle _connect_to_meeting returned, or neither
NegotiatorState(p, w) ==
    IF p = "recv" THEN "AwaitingAck"
    ELSE IF w = "ws" THEN "Joined"
    ELSE "Disconnected"

NegotiatorMoves ==
    { <<"Disconnected", "AwaitingAck">>, <<"AwaitingAck", "Joined">>,
      <<"AwaitingAck", "Disconnected">> }

C20_FinallyNeverRaises ==
    /\ pc = "finally" => websocket # Unbound
    /\ pc = "done" => (result = "returned" /\ exc # "UnboundLocalError")

====
